---- MODULE Spec2Model ----
(***************************************************************************)
(* Job orchestration of the MinerU worker (mineru-ecs/docker/app):         *)
(* main.py (MinerUHybridProcessor), job_manager.py (DynamoDBJobManager),   *)
(* queue_manager.py (SQSQueueManager) and processor.py (MinerUProcessor).  *)
(* One worker process: its main thread (continuous or single-shot mode),   *)
(* the signal handler that interrupts it, the job table, the queue and the *)
(* per-job work directories.                                               *)
(***************************************************************************)
EXTENDS Integers, Sequences, FiniteSets, TLC

\* ---------------------------------------------------------------- bounds
MaxReceives == 2      \* messages the queue delivers to the worker, redeliveries included
MaxSignals == 1       \* stop signals delivered to the process
MaxClock == 3         \* last tick of the wall clock
TicksPerSecond == 2   \* clock ticks in one second of a formatted timestamp
MaxFaults == 1        \* failures of the store, the queue and the object storage
MaxExitCode == 1      \* the external tool exits with 0..MaxExitCode

\* ------------------------------------------------------------- constants
BeijingOffsetHours == 8

Jobs == {"j1", "j2"}
Msgs == {"m1", "m2"}
Artifacts == {[dir |-> "auto/", name |-> "a.md"]}
NoJob == "none"
NoMsg == "none"
NoVal == -1            \* None, or a field the record does not have
Hostname == "h"

Statuses == {"pending", "processing", "completed", "failed", "interrupted"}
Terminal == {"completed", "failed", "interrupted"}

\* Outcomes of one call of the store (boto3 Table.update_item), and of
\* get_queue_attributes: applied, a
\* botocore ClientError (service-side error), or another exception of the
\* client library (BotoCoreError: endpoint unreachable, timeout, ...).
StoreOutcomes == {"ok", "ClientError", "BotoCoreError"}
StoreFailures == StoreOutcomes \ {"ok"}

\* Bodies a received queue message can carry.
MsgKinds == {"ok", "badjson", "nojobid", "nosent"}

NoError == [kind |-> "none", code |-> 0]
NoResult == [present |-> FALSE, output_files |-> {}]

VARIABLES
  single_task_mode,  \* SINGLE_TASK_MODE
  compute_mode,      \* COMPUTE_MODE
  env_job_id,        \* JOB_ID
  cleanup_files,     \* CLEANUP_FILES
  running,           \* self.running
  current_job,       \* self.current_job (the job id of the dict, or NoJob)
  ACTIVE_JOBS,       \* gauge
  JOBS_PROCESSED,    \* counter, by status label
  QUEUE_SIZE,        \* gauge
  pc,                \* position of the main thread
  message,           \* the message the for loop of run_gpu_mode holds
  job_data,          \* the dict handed to process_job
  start_time,        \* process_job's start_time
  exc,               \* the exception travelling through process_job
  result,            \* process_pdf's return value
  exit_code,         \* the process's exit code, NoVal while it runs
  store,             \* the job table
  queue,             \* the state of each message of the queue
  deliveries,        \* messages delivered so far
  faults,            \* infrastructure failures so far
  msg_kind,          \* what each message's body holds
  work_dir,          \* the work directory of each job id
  objects,           \* the keys of the objects in the data bucket
  tool_files,        \* the files the external tool can write into output/
  now,               \* wall clock
  signals,           \* stop signals delivered so far
  run,               \* history of the current process_job invocation
  last_update,       \* history: the last update_job_status call
  peer,              \* a second worker process on the same queue, and
                     \* the messages whose visibility timeout elapsed
  http,              \* the last response of the HTTP thread (Flask)
  SQS_QUEUE_URL,     \* whether SQS_QUEUE_URL is set
  DYNAMODB_TABLE     \* whether DYNAMODB_TABLE is set

vars == <<single_task_mode, compute_mode, env_job_id, cleanup_files, running,
          current_job, ACTIVE_JOBS, JOBS_PROCESSED, QUEUE_SIZE, pc, message,
          job_data, start_time, exc, result, exit_code, store, queue, msg_kind,
          work_dir, objects, tool_files, now, signals, run, last_update,
          deliveries, faults, peer, http, SQS_QUEUE_URL, DYNAMODB_TABLE>>

\* What no step of the main thread or of the signal handler changes: the
\* environment variables, the bodies of the messages, the other worker and
\* the responses of the HTTP thread.
config == <<single_task_mode, compute_mode, env_job_id, cleanup_files, msg_kind,
            tool_files, peer, http, SQS_QUEUE_URL, DYNAMODB_TABLE>>

\* ------------------------------------------------------- pure functions

\* job_manager.timestamp_to_beijing_str: the timestamp shifted to UTC+8 and
\* cut to whole seconds ("%Y-%m-%d %H:%M:%S BJT").  The string is modelled by
\* the number of its second: strings of this format order as their seconds do.
timestamp_to_beijing_str(timestamp) ==
  (timestamp \div TicksPerSecond) + BeijingOffsetHours * 3600

\* MinerUHybridProcessor.get_worker_id
get_worker_id(mode) ==
  IF mode = "fargate" THEN "fargate-" \o Hostname
  ELSE IF mode = "gpu" THEN "gpu-" \o Hostname
  ELSE "worker-" \o Hostname

\* A job record as the upstream submitter creates it.
NewJob ==
  [status |-> "pending", updated_at |-> NoVal, worker_id |-> "",
   started_at |-> NoVal, received_at |-> NoVal, queue_wait_time |-> NoVal,
   completed_at |-> NoVal, processing_time |-> NoVal, failed_at |-> NoVal,
   error_message |-> NoError, result |-> NoResult, retry_count |-> 0]

\* What the submitter stores with a job to identify its source blob and its
\* destination prefix (read by process_job, lines 288-290).
JobSource(j) ==
  [data_bucket |-> "bucket",
   input_key |-> "input/" \o j \o ".pdf",
   output_prefix |-> "output/" \o j \o "/"]

\* The item of job j: the record r together with the job's source fields.
Submitted(j, r) ==
  [f \in DOMAIN r \cup DOMAIN JobSource(j) |->
     IF f \in DOMAIN JobSource(j) THEN JobSource(j)[f] ELSE r[f]]

\* The value that stands for "keyword not supplied, or None" in a kwargs record.
NoKwargs ==
  [worker_id |-> "", started_at |-> NoVal, received_at |-> NoVal,
   queue_wait_time |-> NoVal, completed_at |-> NoVal, processing_time |-> NoVal,
   failed_at |-> NoVal, error_message |-> NoError, result |-> NoResult]

\* A faulty variant of the update expression: it also counts a retry
\* (ADD retry_count, as increment_retry_count does).
UpdateWithRetry(item, status, kwargs, current_time) ==
  [f \in DOMAIN item |->
     IF f = "status" THEN status
     ELSE IF f = "updated_at" THEN timestamp_to_beijing_str(current_time)
     ELSE IF f = "retry_count" THEN item[f] + 1
     ELSE IF f \in DOMAIN kwargs /\ kwargs[f] # NoKwargs[f] THEN kwargs[f]
     ELSE item[f]]

\* A faulty variant of the update expression: the item is replaced (a put),
\* so every field the call does not supply goes back to its first value.
UpdateReplacesItem(item, status, kwargs, current_time) ==
  [f \in DOMAIN item |->
     IF f = "status" THEN status
     ELSE IF f = "updated_at" THEN timestamp_to_beijing_str(current_time)
     ELSE IF f \in DOMAIN kwargs /\ kwargs[f] # NoKwargs[f] THEN kwargs[f]
     ELSE IF f \in DOMAIN NewJob THEN NewJob[f]
     ELSE item[f]]

\* The update expression update_job_status builds: SET status, updated_at and
\* every supplied keyword whose value is not None; nothing else changes.
UpdateExpression(item, status, kwargs, current_time) ==
  [f \in DOMAIN item |->
     IF f = "status" THEN status
     ELSE IF f = "updated_at" THEN timestamp_to_beijing_str(current_time)
     ELSE IF f \in DOMAIN kwargs /\ kwargs[f] # NoKwargs[f] THEN kwargs[f]
     ELSE item[f]]

\* A faulty variant of update_job_status: a failed call puts the record back
\* to "pending".
RollbackOnFailure(table, job_id, status, kwargs, current_time, outcome) ==
  IF outcome = "ok"
  THEN [store |-> [table EXCEPT ![job_id] =
                     UpdateExpression(table[job_id], status, kwargs, current_time)],
        ret |-> "true"]
  ELSE [store |-> [table EXCEPT ![job_id].status = "pending"],
        ret |-> IF outcome = "ClientError" THEN "false" ELSE "raise"]

\* DynamoDBJobManager.update_job_status: the new table and what the call does
\* ("true", "false", or "raise" when the exception is not a ClientError).
update_job_status(table, job_id, status, kwargs, current_time, outcome) ==
  IF outcome = "ok"
  THEN [store |-> [table EXCEPT ![job_id] =
                     UpdateExpression(table[job_id], status, kwargs, current_time)],
        ret |-> "true"]
  ELSE IF outcome = "ClientError"
  THEN [store |-> table, ret |-> "false"]
  ELSE [store |-> table, ret |-> "raise"]

\* ------------------------------------------------------------ the state

MsgJob(m) == IF m = "m1" THEN "j1" ELSE "j2"

NoJobData ==
  [job_id |-> NoJob, received_at |-> NoVal, received_type |-> "absent",
   queue_wait_time |-> NoVal]

\* A record left by an earlier continuous-mode run of process_job that failed:
\* it carries the received_at and queue_wait_time that run wrote.
PriorJob ==
  [NewJob EXCEPT !.status = "failed",
                 !.updated_at = timestamp_to_beijing_str(0),
                 !.worker_id = get_worker_id("gpu"),
                 !.started_at = timestamp_to_beijing_str(0),
                 !.received_at = timestamp_to_beijing_str(0),
                 !.queue_wait_time = 0,
                 !.failed_at = timestamp_to_beijing_str(0),
                 !.error_message = [kind |-> "tool_exit", code |-> 1]]

\* History of one process_job invocation: the transitions it attempted, whether
\* the store applied all of them, what process_pdf did (why it failed, the
\* tool's exit code, the files the tool wrote in this run), the gauge before
\* it, and the order of its store writes, its process_pdf call and the removal
\* of the work directory.
IdleRun ==
  [state |-> "idle", job |-> NoJob, proc |-> 0, term |-> <<>>, applied |-> TRUE,
   invoker |-> "none", rc |-> NoVal, scope |-> FALSE, gauge0 |-> 0,
   cause |-> "none", produced |-> {}, files |-> {}, log |-> <<>>]

NoUpdate == [job |-> NoJob, status |-> "none", outcome |-> "none", ret |-> "none"]

\* The second worker before it received anything.
IdlePeer == [state |-> "idle", msg |-> NoMsg, job |-> NoJob, expired |-> {}]

\* The HTTP thread before it served a request.
NoResponse == [route |-> "none"]

\* The process when it is launched: its environment, the table and the queue,
\* and the processor's fields at the values __init__ gives them.
Launch ==
  /\ single_task_mode \in BOOLEAN
  /\ compute_mode \in (IF single_task_mode THEN {"fargate", "auto"} ELSE {"gpu"})
  /\ env_job_id \in (IF single_task_mode THEN {NoJob, "j1", "jX"} ELSE {NoJob})
  /\ cleanup_files \in BOOLEAN
  /\ msg_kind \in {[m \in Msgs |-> IF m = "m1" THEN "ok" ELSE k] :
                     k \in (IF single_task_mode THEN {"ok"} ELSE MsgKinds)}
  /\ store \in {[j \in Jobs |-> Submitted(j, IF j = "j1" THEN r ELSE NewJob)] :
                  r \in (IF single_task_mode THEN {NewJob, PriorJob} ELSE {NewJob})}
  /\ running = TRUE
  /\ current_job = NoJob
  /\ ACTIVE_JOBS = 0
  /\ JOBS_PROCESSED = [completed |-> 0, failed |-> 0]
  /\ QUEUE_SIZE = 0
  /\ message = NoMsg
  /\ job_data = NoJobData
  /\ start_time = NoVal
  /\ exc = NoError
  /\ result = NoResult
  /\ exit_code = NoVal
  /\ queue = [m \in Msgs |-> "visible"]
  /\ deliveries = 0
  /\ faults = 0
  /\ work_dir = [j \in Jobs |-> [exists |-> FALSE, outputs |-> {}]]
  /\ objects = {}
  /\ now = 0
  /\ signals = 0
  /\ run = IdleRun
  /\ last_update = NoUpdate
  /\ peer = IdlePeer
  /\ http = NoResponse

\* The state after construction: both managers found their configuration and
\* main is about to call run().
Init ==
  /\ Launch
  /\ tool_files = Artifacts
  /\ SQS_QUEUE_URL = TRUE
  /\ DYNAMODB_TABLE = TRUE
  /\ pc = "run"

\* process_job's own state, and the environment's counters.
jobvars == <<current_job, ACTIVE_JOBS, start_time, exc, result, store, work_dir, objects,
             run, last_update>>
envvars == <<now, signals, deliveries, faults>>

\* The infrastructure may fail while the budget of failures lasts.
MayFail == faults < MaxFaults
StoreOutcomesNow == IF MayFail THEN StoreOutcomes ELSE {"ok"}
CallOutcomesNow == IF MayFail THEN BOOLEAN ELSE {TRUE}

\* ------------------------------------------------- MinerUHybridProcessor.run

Run ==
  /\ pc = "run"
  /\ pc' = IF single_task_mode THEN "fargate" ELSE "gpu_while"
  /\ UNCHANGED <<config, running, JOBS_PROCESSED, QUEUE_SIZE, message, job_data,
                 exit_code, queue, jobvars, envvars>>

\* ------------------------------------------------------------ run_gpu_mode

\* while self.running: when it is false run_gpu_mode returns, run returns and
\* the process ends with exit code 0.
GpuWhile ==
  /\ pc = "gpu_while"
  /\ IF running
     THEN pc' = "gpu_receive" /\ UNCHANGED exit_code
     ELSE pc' = "exit" /\ exit_code' = 0
  /\ UNCHANGED <<config, running, JOBS_PROCESSED, QUEUE_SIZE, message, job_data,
                 queue, jobvars, envvars>>

\* A faulty variant of the queue: it hands out a message it already handed
\* out and whose visibility timeout has not elapsed.
DeliverableInFlight(m) ==
  /\ queue[m] \in {"visible", "inflight"}
  /\ deliveries < MaxReceives
  /\ m = "m1" \/ deliveries > 0

\* What the queue would deliver now.  m1 was sent first: the queue hands out
\* m2 only after it has handed out m1.
Deliverable(m) ==
  /\ queue[m] = "visible"
  /\ deliveries < MaxReceives
  /\ m = "m1" \/ deliveries > 0

\* receive_messages(max_messages=1) returns one visible message, which the
\* queue hides for its visibility timeout.
ReceiveOne ==
  /\ pc = "gpu_receive"
  /\ \E m \in Msgs :
       /\ Deliverable(m)
       /\ queue' = [queue EXCEPT ![m] = "inflight"]
       /\ message' = m
  /\ deliveries' = deliveries + 1
  /\ pc' = "gpu_message"
  /\ UNCHANGED <<config, running, JOBS_PROCESSED, QUEUE_SIZE, job_data, exit_code,
                 jobvars, now, signals, faults>>

\* receive_messages returns no message (the else branch of "if messages"):
\* the long poll found nothing the queue would deliver.
ReceiveNone ==
  /\ pc = "gpu_receive"
  /\ \A m \in Msgs : ~Deliverable(m)
  /\ pc' = "gpu_attributes"
  /\ UNCHANGED <<config, running, JOBS_PROCESSED, QUEUE_SIZE, message, job_data,
                 exit_code, queue, jobvars, envvars>>

\* A faulty variant of the outer except: the loop ends on a receive error.
ExitOnReceiveError == "exit"

\* Lines 228-230: the outer except logs the error and sleeps.
AfterReceiveRaises == "gpu_sleep"

\* receive_messages raises (it logs and re-raises every exception of the
\* receive call): the outer except takes it.
ReceiveRaises ==
  /\ pc = "gpu_receive"
  /\ MayFail
  /\ faults' = faults + 1
  /\ pc' = AfterReceiveRaises
  /\ UNCHANGED <<config, running, JOBS_PROCESSED, QUEUE_SIZE, message, job_data,
                 exit_code, queue, jobvars, now, signals, deliveries>>

\* get_queue_attributes: the approximate number of visible messages.
QueueDepth == Cardinality({m \in Msgs : queue[m] = "visible"})

\* A faulty variant of the gauge update: the gauge is left as it was.
GaugeNotSet(size, depth, outcome) == size

\* Lines 219-223: QUEUE_SIZE.set(int(attrs.get('ApproximateNumberOfMessages',
\* 0))).  A ClientError makes get_queue_attributes return {}, read as 0; any
\* other exception leaves it and is caught at line 222 before the gauge is set.
QueueSizeAfter(size, depth, outcome) ==
  IF outcome = "ok" THEN depth
  ELSE IF outcome = "ClientError" THEN 0
  ELSE size

QueueAttributes ==
  /\ pc = "gpu_attributes"
  /\ \E outcome \in StoreOutcomesNow :
       /\ QUEUE_SIZE' = QueueSizeAfter(QUEUE_SIZE, QueueDepth, outcome)
       /\ faults' = IF outcome = "ok" THEN faults ELSE faults + 1
  /\ pc' = "gpu_sleep"
  /\ UNCHANGED <<config, running, JOBS_PROCESSED, message, job_data, exit_code,
                 queue, jobvars, now, signals, deliveries>>

Sleep ==
  /\ pc = "gpu_sleep"
  /\ pc' = "gpu_while"
  /\ UNCHANGED <<config, running, JOBS_PROCESSED, QUEUE_SIZE, message, job_data,
                 exit_code, queue, jobvars, envvars>>

\* The body of "for message in messages" up to the call of process_job:
\* break when a stop signal arrived; json.loads and the SentTimestamp lookup
\* raise into the inner except; otherwise job_data gets the queue metadata.
\* A faulty variant of the loop body's test: it never breaks.
NeverBreaks(r) == FALSE

\* A faulty variant of the same test: inverted, it breaks while running.
BreaksWhileRunning(r) == r

\* Lines 186-187: "if not self.running: break".
LoopBreaks(r) == ~r

GpuMessage ==
  /\ pc = "gpu_message"
  /\ IF LoopBreaks(running)
     THEN /\ pc' = "gpu_while"
          /\ message' = NoMsg
          /\ UNCHANGED job_data
     ELSE IF msg_kind[message] \in {"badjson", "nosent"}
     THEN /\ pc' = "gpu_except"
          /\ UNCHANGED <<message, job_data>>
     ELSE /\ pc' = "process_job"
          /\ job_data' = [job_id |-> IF msg_kind[message] = "nojobid"
                                     THEN NoJob ELSE MsgJob(message),
                          received_at |-> now, received_type |-> "float",
                          queue_wait_time |-> now]
          /\ UNCHANGED message
  /\ UNCHANGED <<config, running, JOBS_PROCESSED, QUEUE_SIZE, exit_code, queue,
                 jobvars, envvars>>

\* A faulty variant of the inner except: it also deletes the message it could
\* not handle.
GpuExceptDeletes ==
  /\ pc = "gpu_except"
  /\ JOBS_PROCESSED' = [JOBS_PROCESSED EXCEPT !.failed = @ + 1]
  /\ queue' = [queue EXCEPT ![message] = "deleted"]
  /\ pc' = "gpu_while"
  /\ message' = NoMsg
  /\ job_data' = NoJobData
  /\ run' = IdleRun
  /\ last_update' = NoUpdate
  /\ UNCHANGED <<config, running, QUEUE_SIZE, exit_code, current_job,
                 ACTIVE_JOBS, start_time, exc, result, store, work_dir, objects,
                 envvars>>

\* A faulty variant of the inner except: it logs and counts nothing.
GpuExceptNoCount ==
  /\ pc = "gpu_except"
  /\ pc' = "gpu_while"
  /\ message' = NoMsg
  /\ job_data' = NoJobData
  /\ run' = IdleRun
  /\ last_update' = NoUpdate
  /\ UNCHANGED <<config, running, JOBS_PROCESSED, QUEUE_SIZE, exit_code, queue,
                 current_job, ACTIVE_JOBS, start_time, exc, result, store,
                 work_dir, objects, envvars>>

\* The inner except of run_gpu_mode: count the message as failed, keep it.
\* The loop body ends: its locals and the history of the handling are dropped.
GpuExcept ==
  /\ pc = "gpu_except"
  /\ JOBS_PROCESSED' = [JOBS_PROCESSED EXCEPT !.failed = @ + 1]
  /\ pc' = "gpu_while"
  /\ message' = NoMsg
  /\ job_data' = NoJobData
  /\ run' = IdleRun
  /\ last_update' = NoUpdate
  /\ UNCHANGED <<config, running, QUEUE_SIZE, exit_code, queue, current_job,
                 ACTIVE_JOBS, start_time, exc, result, store, work_dir, objects, envvars>>

\* A faulty variant of the queue: a delete call that fails has removed the
\* message all the same.
AckDespiteFailure(q, m, ok) == [q EXCEPT ![m] = "deleted"]

\* queue_manager.delete_message after process_job returned: the message is
\* deleted, or the call fails and returns False.
AckMessage(q, m, ok) ==
  IF ok THEN [q EXCEPT ![m] = "deleted"] ELSE q

GpuDelete ==
  /\ pc = "gpu_delete"
  /\ \E ok \in CallOutcomesNow :
       /\ queue' = AckMessage(queue, message, ok)
       /\ faults' = IF ok THEN faults ELSE faults + 1
  /\ pc' = "gpu_while"
  /\ message' = NoMsg
  /\ job_data' = NoJobData
  /\ run' = IdleRun
  /\ last_update' = NoUpdate
  /\ UNCHANGED <<config, running, JOBS_PROCESSED, QUEUE_SIZE, exit_code,
                 current_job, ACTIVE_JOBS, start_time, exc, result, store,
                 work_dir, objects, now, signals, deliveries>>

\* -------------------------------------------------------------- process_job

loopvars == <<running, QUEUE_SIZE, message, job_data, exit_code, queue>>

\* Lines 258-264: a body without job_id raises KeyError before anything is
\* recorded; otherwise the job becomes the current job and the gauge goes up.
ProcessJobEnter ==
  /\ pc = "process_job"
  /\ IF job_data.job_id = NoJob
     THEN /\ pc' = "gpu_except"
          /\ run' = [IdleRun EXCEPT !.state = "raised", !.gauge0 = ACTIVE_JOBS]
          /\ UNCHANGED <<current_job, ACTIVE_JOBS, start_time, exc, result>>
     ELSE /\ pc' = "pj_processing"
          /\ current_job' = job_data.job_id
          /\ ACTIVE_JOBS' = ACTIVE_JOBS + 1
          /\ start_time' = now
          /\ exc' = NoError
          /\ result' = NoResult
          /\ run' = [IdleRun EXCEPT !.state = "active", !.job = job_data.job_id,
                                    !.gauge0 = ACTIVE_JOBS]
  /\ UNCHANGED <<config, loopvars, JOBS_PROCESSED, store, work_dir, objects, last_update,
                 envvars>>

\* A faulty variant of process_job: it goes from the processing write straight
\* to the completed write, without calling process_pdf.
SkipsInvoker(ret) ==
  IF ret = "raise" THEN "pj_except" ELSE "pj_completed"

\* Where process_job goes after the call that writes "processing" (line 279):
\* into the except branch when the call raised, on to process_pdf otherwise.
AfterProcessingUpdate(ret) ==
  IF ret = "raise" THEN "pj_except" ELSE "process_pdf"

\* Lines 268-283: update_data and the processing transition.  A received_at
\* that is already a string (a record read from the table) makes
\* timestamp_to_beijing_str raise TypeError before the store is called.
ProcessingKwargs ==
  [NoKwargs EXCEPT !.worker_id = get_worker_id(compute_mode),
                   !.started_at = timestamp_to_beijing_str(start_time),
                   !.queue_wait_time = job_data.queue_wait_time,
                   !.received_at = IF job_data.received_type = "float"
                                   THEN timestamp_to_beijing_str(job_data.received_at)
                                   ELSE NoVal]

ProcessJobProcessing ==
  /\ pc = "pj_processing"
  /\ IF job_data.received_type = "str"
     THEN /\ exc' = [kind |-> "TypeError", code |-> 0]
          /\ pc' = "pj_except"
          /\ UNCHANGED <<store, last_update, run, faults>>
     ELSE \E outcome \in StoreOutcomesNow :
            LET r == update_job_status(store, job_data.job_id, "processing",
                                       ProcessingKwargs, now, outcome)
            IN /\ store' = r.store
               /\ last_update' = [job |-> job_data.job_id, status |-> "processing",
                                  outcome |-> outcome, ret |-> r.ret]
               /\ run' = [run EXCEPT !.proc = @ + 1,
                                     !.applied = @ /\ outcome = "ok",
                                     !.log = Append(@, "processing")]
               /\ exc' = IF r.ret = "raise"
                         THEN [kind |-> "BotoCoreError", code |-> 0] ELSE exc
               /\ faults' = IF outcome = "ok" THEN faults ELSE faults + 1
               /\ pc' = AfterProcessingUpdate(r.ret)
  /\ UNCHANGED <<config, loopvars, current_job, ACTIVE_JOBS, JOBS_PROCESSED,
                 start_time, result, work_dir, objects, now, signals, deliveries>>

\* Lines 294-306: the completed transition and the completed counter; a call
\* that raises goes to the except branch.
CompletedKwargs ==
  [NoKwargs EXCEPT !.completed_at = timestamp_to_beijing_str(now),
                   !.processing_time = now - start_time,
                   !.result = result]

ProcessJobCompleted ==
  /\ pc = "pj_completed"
  /\ \E outcome \in StoreOutcomesNow :
       LET r == update_job_status(store, job_data.job_id, "completed",
                                  CompletedKwargs, now, outcome)
       IN /\ store' = r.store
          /\ last_update' = [job |-> job_data.job_id, status |-> "completed",
                             outcome |-> outcome, ret |-> r.ret]
          /\ run' = [run EXCEPT !.term = Append(@, "completed"),
                                !.applied = @ /\ outcome = "ok",
                                !.log = Append(@, "completed")]
          /\ faults' = IF outcome = "ok" THEN faults ELSE faults + 1
          /\ IF r.ret = "raise"
             THEN /\ exc' = [kind |-> "BotoCoreError", code |-> 0]
                  /\ pc' = "pj_except"
                  /\ UNCHANGED JOBS_PROCESSED
             ELSE /\ JOBS_PROCESSED' = [JOBS_PROCESSED EXCEPT !.completed = @ + 1]
                  /\ pc' = "pj_finally"
                  /\ UNCHANGED exc
  /\ UNCHANGED <<config, loopvars, current_job, ACTIVE_JOBS, start_time, result,
                 work_dir, objects, now, signals, deliveries>>

\* Lines 308-321: the failed transition with str(e), the failed counter, and
\* the re-raise in single-task mode.  A call that raises leaves the except
\* branch with its own exception.
FailedKwargs ==
  [NoKwargs EXCEPT !.error_message = exc,
                   !.failed_at = timestamp_to_beijing_str(now)]

\* Faulty variants of the re-raise: the exception always leaves process_job;
\* the exception never leaves it.
AlwaysReraise(single, e) == e

NeverReraise(single, e) == NoError

Reraise(single, e) == IF single THEN e ELSE NoError

ProcessJobExcept ==
  /\ pc = "pj_except"
  /\ \E outcome \in StoreOutcomesNow :
       LET r == update_job_status(store, job_data.job_id, "failed",
                                  FailedKwargs, now, outcome)
       IN /\ store' = r.store
          /\ last_update' = [job |-> job_data.job_id, status |-> "failed",
                             outcome |-> outcome, ret |-> r.ret]
          /\ run' = [run EXCEPT !.term = Append(@, "failed"),
                                !.applied = @ /\ outcome = "ok",
                                !.log = Append(@, "failed")]
          /\ faults' = IF outcome = "ok" THEN faults ELSE faults + 1
          /\ IF r.ret = "raise"
             THEN /\ exc' = [kind |-> "BotoCoreError", code |-> 0]
                  /\ UNCHANGED JOBS_PROCESSED
             ELSE /\ JOBS_PROCESSED' = [JOBS_PROCESSED EXCEPT !.failed = @ + 1]
                  /\ exc' = Reraise(single_task_mode, exc)
  /\ pc' = "pj_finally"
  /\ UNCHANGED <<config, loopvars, current_job, ACTIVE_JOBS, start_time, result,
                 work_dir, objects, now, signals, deliveries>>

\* Lines 323-325: the finally block, then the return to the caller: on to the
\* delete (continuous mode) or to the end of run_fargate_mode, or into the
\* caller's except when an exception leaves process_job.  process_job's
\* locals end with it.
\* Faulty variants of the finally block and of the return to the caller: the
\* gauge is not decremented; the current job is not cleared; the continuous
\* loop deletes the message although process_job raised.
LeakGauge(g) == g

KeepCurrentJob(j) == j

AckAfterRaise(single, e) ==
  IF single
  THEN (IF e = NoError THEN "fargate_done" ELSE "fargate_except")
  ELSE "gpu_delete"

FinallyGauge(g) == g - 1

FinallyCurrentJob(j) == NoJob

AfterProcessJob(single, e) ==
  IF single
  THEN (IF e = NoError THEN "fargate_done" ELSE "fargate_except")
  ELSE (IF e = NoError THEN "gpu_delete" ELSE "gpu_except")

ProcessJobFinally ==
  /\ pc = "pj_finally"
  /\ ACTIVE_JOBS' = FinallyGauge(ACTIVE_JOBS)
  /\ current_job' = FinallyCurrentJob(current_job)
  /\ run' = [run EXCEPT !.state = IF exc = NoError THEN "returned" ELSE "raised"]
  /\ pc' = AfterProcessJob(single_task_mode, exc)
  /\ start_time' = NoVal
  /\ exc' = NoError
  /\ result' = NoResult
  /\ UNCHANGED <<config, loopvars, JOBS_PROCESSED, store, work_dir, objects, last_update,
                 envvars>>

\* -------------------------------------------------- MinerUProcessor.process_pdf

pdfframe == <<config, loopvars, current_job, ACTIVE_JOBS, JOBS_PROCESSED,
              start_time, store, last_update, signals, deliveries>>

\* What a process_pdf call adds to the run's history: the call, and the
\* removal of the work directory when CLEANUP_FILES is set (the last thing the
\* call does, on its success path and in its except branch).
InvokerEvents(enabled) ==
  IF enabled THEN <<"invoker", "cleanup">> ELSE <<"invoker">>

\* shutil.rmtree(job_work_dir, ignore_errors=True) when CLEANUP_FILES is set.
CleanupWorkDir(wd, job_id, enabled) ==
  IF enabled THEN [wd EXCEPT ![job_id] = [exists |-> FALSE, outputs |-> {}]]
  ELSE wd

\* A faulty variant of the except branch: it re-raises without cleaning up.
NoCleanupOnError(wd, job_id, enabled) == wd

\* Lines 208-224: the except branch cleans up the same way and re-raises.
CleanupOnError(wd, job_id, enabled) == CleanupWorkDir(wd, job_id, enabled)

\* Lines 125-131: the job's work directory with input/ and output/
\* (exist_ok=True: what an earlier run left there stays).
Mkdir(wd, job_id) == [wd EXCEPT ![job_id].exists = TRUE]

\* _run_mineru_cli, lines 307-332: a non-zero return code raises RuntimeError
\* carrying the code, and so does an output directory without any file.
ToolError(return_code, output_files) ==
  IF return_code # 0 THEN [kind |-> "tool_exit", code |-> return_code]
  ELSE IF output_files = {} THEN [kind |-> "no_output", code |-> 0]
  ELSE NoError

\* A faulty variant of the key: the file's name without its directory.
S3KeyOfName(output_prefix, file) == output_prefix \o file.name

\* _upload_results, lines 476-477: relative_path is the file's path below
\* output/, and s3_key = f"{output_prefix}{relative_path}".
S3Key(output_prefix, file) == output_prefix \o file.dir \o file.name

\* Lines 500-506: the entry of one uploaded file (file_type and size, which
\* depend on the file's content alone, are left out).
OutputFile(file, bucket, output_prefix) ==
  [file_name |-> file.name,
   s3_url |-> "s3://" \o bucket \o "/" \o S3Key(output_prefix, file)]

\* _upload_results, lines 438-523: one entry for every file of output/.
UploadResults(output_files, bucket, output_prefix) ==
  [present |-> TRUE,
   output_files |-> {OutputFile(f, bucket, output_prefix) : f \in output_files}]

\* Lines 487-498: the keys upload_file has written for the files it was
\* called for.
Uploaded(files, output_prefix) == {S3Key(output_prefix, f) : f \in files}

\* The wall clock after the external tool ran: the tool takes one tick.
AfterTool(t) == IF t < MaxClock THEN t + 1 ELSE t

\* process_pdf fails before the tool runs: the download raises, the file is
\* empty (ValueError), or _diagnose_processing_environment raises.  The except
\* branch cleans up and re-raises into process_job.
PdfFailsEarly ==
  /\ pc = "process_pdf"
  /\ \E o \in {"empty_file"} \cup (IF MayFail THEN {"download", "diagnose"} ELSE {}) :
       /\ faults' = IF o = "empty_file" THEN faults ELSE faults + 1
       /\ exc' = [kind |-> o, code |-> 0]
  /\ work_dir' = CleanupOnError(Mkdir(work_dir, job_data.job_id),
                                job_data.job_id, cleanup_files)
  /\ run' = [run EXCEPT !.scope = TRUE, !.invoker = "failed", !.cause = exc'.kind,
                        !.log = @ \o InvokerEvents(cleanup_files)]
  /\ pc' = "pj_except"
  /\ UNCHANGED <<result, now, objects>>
  /\ UNCHANGED pdfframe

\* process_pdf runs the tool, which writes some artifacts into output/ and
\* exits.  A tool error, or a failed upload, goes through the except branch;
\* otherwise the files are uploaded, the work directory is cleaned up (lines
\* 179-187) and the result returned.  sent are the files upload_file
\* succeeded for: all of them, or those before the one it raised for (lines
\* 512-517 re-raise, what was uploaded stays in the bucket).
PdfRunsTool ==
  /\ pc = "process_pdf"
  /\ \E return_code \in 0..MaxExitCode, produced \in SUBSET tool_files :
       LET made == Mkdir(work_dir, job_data.job_id)
           files == made[job_data.job_id].outputs \cup produced
           wd == [made EXCEPT ![job_data.job_id].outputs = files]
           e == ToolError(return_code, files)
           source == JobSource(job_data.job_id)
       IN \E sent \in SUBSET files :
          /\ e # NoError => sent = {}
          /\ (e = NoError /\ sent # files) => MayFail
          /\ faults' = IF e = NoError /\ sent # files THEN faults + 1 ELSE faults
          /\ objects' = objects \cup Uploaded(sent, source.output_prefix)
          /\ IF e = NoError /\ sent = files
             THEN /\ work_dir' = CleanupWorkDir(wd, job_data.job_id, cleanup_files)
                  /\ result' = UploadResults(files, source.data_bucket,
                                             source.output_prefix)
                  /\ run' = [run EXCEPT !.scope = TRUE, !.rc = return_code,
                                        !.invoker = "ok", !.produced = produced,
                                        !.files = files,
                                        !.log = @ \o InvokerEvents(cleanup_files)]
                  /\ pc' = "pj_completed"
                  /\ UNCHANGED exc
             ELSE /\ work_dir' = CleanupOnError(wd, job_data.job_id, cleanup_files)
                  /\ exc' = IF e # NoError THEN e ELSE [kind |-> "upload", code |-> 0]
                  /\ run' = [run EXCEPT !.scope = TRUE, !.rc = return_code,
                                        !.invoker = "failed", !.produced = produced,
                                        !.files = files, !.cause = exc'.kind,
                                        !.log = @ \o InvokerEvents(cleanup_files)]
                  /\ pc' = "pj_except"
                  /\ UNCHANGED result
  /\ now' = AfterTool(now)
  /\ UNCHANGED pdfframe

\* --------------------------------------------------------- run_fargate_mode

\* The dict get_job returns: the table's item, whose received_at (when an
\* earlier run wrote it) is a formatted string.
ItemAsJobData(table, job_id) ==
  [job_id |-> job_id,
   received_at |-> table[job_id].received_at,
   received_type |-> IF table[job_id].received_at = NoVal THEN "absent" ELSE "str",
   queue_wait_time |-> table[job_id].queue_wait_time]

\* A faulty variant of get_job: for an id the table does not hold it returns
\* another item instead of None.
get_job_fallback(table, job_id) ==
  ItemAsJobData(table, IF job_id \in DOMAIN table THEN job_id ELSE "j1")

\* DynamoDBJobManager.get_job when get_item succeeds: the item, or None
\* (NoJobData) when the table holds no item for the id.
get_job(table, job_id) ==
  IF job_id \in DOMAIN table THEN ItemAsJobData(table, job_id) ELSE NoJobData

\* Lines 236-248: no JOB_ID, or no such item: sys.exit(1); get_job raises: the
\* except; otherwise process_job gets the item.
Fargate ==
  /\ pc = "fargate"
  /\ IF env_job_id = NoJob
     THEN pc' = "exit" /\ exit_code' = 1 /\ UNCHANGED <<job_data, faults>>
     ELSE \E ok \in CallOutcomesNow :
            /\ faults' = IF ok THEN faults ELSE faults + 1
            /\ IF ~ok
               THEN pc' = "fargate_except" /\ UNCHANGED <<exit_code, job_data>>
               ELSE IF get_job(store, env_job_id) = NoJobData
               THEN pc' = "exit" /\ exit_code' = 1 /\ UNCHANGED job_data
               ELSE /\ pc' = "process_job"
                    /\ job_data' = get_job(store, env_job_id)
                    /\ UNCHANGED exit_code
  /\ UNCHANGED <<config, running, JOBS_PROCESSED, QUEUE_SIZE, message, queue,
                 jobvars, now, signals, deliveries>>

\* Lines 252-254: sys.exit(1).
FargateExcept ==
  /\ pc = "fargate_except"
  /\ pc' = "exit"
  /\ exit_code' = 1
  /\ UNCHANGED <<config, running, JOBS_PROCESSED, QUEUE_SIZE, message, job_data,
                 queue, jobvars, envvars>>

\* Line 250: run_fargate_mode returns, run returns, the process ends.
FargateDone ==
  /\ pc = "fargate_done"
  /\ pc' = "exit"
  /\ exit_code' = 0
  /\ UNCHANGED <<config, running, JOBS_PROCESSED, QUEUE_SIZE, message, job_data,
                 queue, jobvars, envvars>>

\* ------------------------------------------------------------ signal_handler

InterruptedKwargs ==
  [NoKwargs EXCEPT !.error_message = [kind |-> "interrupted", code |-> 0]]

\* A faulty variant of the handler's status: a value the lifecycle does not know.
CancelledStatus == "cancelled"

\* Line 167: the status the handler writes.
InterruptedStatus == "interrupted"

\* A faulty variant of the handler's test: it never sees a job in flight.
NoJobInFlight(cj) == FALSE

\* Line 163: "if self.current_job".
JobInFlight(cj) == cj # NoJob

\* The handler is installed by __init__ (lines 108-109) and runs in the main
\* thread between two of its steps: running is
\* cleared and, when a job is current, "interrupted" is written for it; an
\* exception of that call is caught and logged.
SignalHandler ==
  /\ pc \notin {"main", "exit"}
  /\ signals < MaxSignals
  /\ signals' = signals + 1
  /\ running' = FALSE
  /\ IF JobInFlight(current_job)
     THEN \E outcome \in StoreOutcomesNow :
            LET r == update_job_status(store, current_job, InterruptedStatus,
                                       InterruptedKwargs, now, outcome)
            IN /\ store' = r.store
               /\ last_update' = [job |-> current_job, status |-> InterruptedStatus,
                                  outcome |-> outcome, ret |-> r.ret]
               /\ faults' = IF outcome = "ok" THEN faults ELSE faults + 1
     ELSE UNCHANGED <<store, last_update, faults>>
  /\ UNCHANGED <<config, current_job, ACTIVE_JOBS, JOBS_PROCESSED, QUEUE_SIZE, pc,
                 message, job_data, start_time, exc, result, exit_code, queue,
                 work_dir, objects, now, run, deliveries>>

\* The keywords of the update_job_status call a step makes: the signal
\* handler's (line 168), or those of the call process_job stands at (lines
\* 279-283, 297-303, 310-315).
CallKwargs ==
  IF signals' # signals THEN InterruptedKwargs
  ELSE IF pc = "pj_processing" THEN ProcessingKwargs
  ELSE IF pc = "pj_completed" THEN CompletedKwargs
  ELSE FailedKwargs

\* The keywords of a call whose value is not None.
Supplied(kwargs) == {f \in DOMAIN kwargs : kwargs[f] # NoKwargs[f]}

\* ------------------------------------------------------------- environment

\* A received message that was not deleted becomes visible again; the worker
\* can see that only at its next receive.
VisibilityTimeout ==
  /\ pc = "gpu_receive"
  /\ \E m \in Msgs :
       /\ queue[m] = "inflight"
       /\ queue' = [queue EXCEPT ![m] = "visible"]
  /\ UNCHANGED <<config, running, current_job, ACTIVE_JOBS, JOBS_PROCESSED,
                 QUEUE_SIZE, pc, message, job_data, start_time, exc, result,
                 exit_code, store, work_dir, objects, now, signals, run, last_update,
                 deliveries, faults>>

Next ==
  \/ Run
  \/ GpuWhile
  \/ ReceiveOne
  \/ ReceiveNone
  \/ ReceiveRaises
  \/ QueueAttributes
  \/ Sleep
  \/ GpuMessage
  \/ GpuExcept
  \/ GpuDelete
  \/ ProcessJobEnter
  \/ ProcessJobProcessing
  \/ ProcessJobCompleted
  \/ ProcessJobExcept
  \/ ProcessJobFinally
  \/ PdfFailsEarly
  \/ PdfRunsTool
  \/ Fargate
  \/ FargateExcept
  \/ FargateDone
  \/ SignalHandler
  \/ VisibilityTimeout

Spec == Init /\ [][Next]_vars

\* ================================================================== claims

\* process_job has ended (returned or raised) and its caller has not yet
\* moved on.
Exited == run.state \in {"returned", "raised"}

\* ---- C1: status transitions in the store
\* C1 (as stated, for the continuous worker, whose records all start as
\* pending): every change of a job's status follows
\* pending -> processing -> {completed | failed | interrupted}: processing
\* replaces only pending, a terminal status is never replaced, pending is
\* never written.
C1_Monotone ==
  [][\A j \in Jobs :
       (~single_task_mode /\ store'[j].status # store[j].status) =>
         /\ store'[j].status # "pending"
         /\ store[j].status \notin Terminal
         /\ (store'[j].status = "processing" => store[j].status = "pending")]_vars

\* C1 (amended): pending is never written, and a job's status changes only
\* while process_job runs for that job: to processing only by the write at the
\* start of the run (over whatever status the record holds, a terminal one
\* after a redelivery), to completed or failed only by the run's terminal
\* write, to interrupted only by the signal handler.
C1_NeverBackToPending ==
  [][\A j \in Jobs :
       store'[j].status # store[j].status =>
         /\ store'[j].status # "pending"
         /\ run.state = "active" /\ run.job = j /\ current_job = j
         /\ (store'[j].status = "processing" => pc = "pj_processing")
         /\ (store'[j].status = "completed" => pc = "pj_completed")
         /\ (store'[j].status = "failed" => pc = "pj_except")
         /\ (store'[j].status = "interrupted" => signals' = signals + 1)]_vars

\* A redelivered job whose failed record was put back to processing.
C1_ReprocessedAfterTerminal ==
  /\ ~single_task_mode
  /\ \E j \in Jobs : store[j].status = "processing" /\ store[j].failed_at # NoVal

\* ---- C2: acknowledgement
\* C2: in continuous mode a message is deleted only by the delete that follows
\* process_job for that message returning without raising, after the run
\* attempted its completed or failed write; a message whose process_job raised,
\* or that never reached process_job, stays in the queue.
C2_AckOnlyAfterReturn ==
  [][\A m \in Msgs :
       (queue'[m] = "deleted" /\ queue[m] # "deleted") =>
         /\ ~single_task_mode
         /\ pc = "gpu_delete" /\ message = m
         /\ run.state = "returned" /\ run.job = MsgJob(m)
         /\ Len(run.term) >= 1
         /\ run.term[Len(run.term)] \in {"completed", "failed"}]_vars

\* A message deleted after its job's failure was recorded.
C2_AckedAfterFailure ==
  /\ queue["m1"] = "deleted"
  /\ store["j1"].status = "failed"
  /\ JOBS_PROCESSED.failed = 1

\* ---- C3: one job at a time
\* C3: at most one job is in flight: the gauge is 0 or 1, it is 1 exactly while
\* a current job is set, which is exactly while the main thread is inside
\* process_job; and process_job is entered only with gauge 0, no current job
\* and no earlier invocation still active.
InsideProcessJob ==
  pc \in {"pj_processing", "process_pdf", "pj_completed", "pj_except", "pj_finally"}

C3_Sequential ==
  /\ ACTIVE_JOBS \in {0, 1}
  /\ current_job \in Jobs \cup {NoJob}
  /\ (ACTIVE_JOBS = 1) = (current_job # NoJob)
  /\ (current_job # NoJob) = InsideProcessJob
  /\ InsideProcessJob => run.state = "active" /\ run.job = current_job
  /\ pc = "process_job" => ACTIVE_JOBS = 0 /\ current_job = NoJob /\ run.state = "idle"

\* The second message's job is in flight after the first one's has ended.
C3_SecondJobInFlight ==
  /\ deliveries = 2
  /\ pc = "process_pdf"
  /\ current_job = "j2"
  /\ ACTIVE_JOBS = 1
  /\ store["j1"].status \in Terminal

\* ---- C4: one processing and one terminal transition per invocation
\* C4: an invocation of process_job that got a job id and queue metadata has,
\* when it ends, attempted the processing transition exactly once and exactly
\* one terminal transition (completed or failed, never both).
C4_ExactlyOnce ==
  (Exited /\ run.job # NoJob /\ job_data.received_type = "float") =>
    /\ run.proc = 1
    /\ Len(run.term) = 1

\* ---- C5: the work directory after process_job
\* C5: once process_job has ended after calling process_pdf, on any exit path
\* of process_pdf, the job's work directory does not exist when CLEANUP_FILES
\* is set and exists when it is not.
C5_WorkScopeReleased ==
  (Exited /\ run.scope) => (work_dir[run.job].exists = ~cleanup_files)

\* The tool ran and failed, cleanup is on, and the directory is gone.
C5_ReleasedAfterToolFailure ==
  /\ Exited
  /\ run.invoker = "failed" /\ run.rc > 0
  /\ cleanup_files
  /\ ~work_dir[run.job].exists

\* ---- C6: gauge and current job after process_job
\* C6: when process_job has ended, however it ended, the active-job gauge has
\* the value it had before the call and no current job is set.
C6_Released ==
  Exited => (ACTIVE_JOBS = run.gauge0 /\ current_job = NoJob)

\* process_job ended with the exception raised by the write of "failed".
C6_RaisedWhileRecordingFailure ==
  /\ run.state = "raised"
  /\ ~single_task_mode
  /\ run.term = <<"failed">>
  /\ last_update.status = "failed" /\ last_update.ret = "raise"
  /\ ACTIVE_JOBS = 0

\* ---- C7: a successful job ends completed
\* C7: when process_job has ended for a job whose process_pdf call succeeded
\* (and the store applied every write process_job made), the record is
\* completed, completed_at >= started_at, and result.output_files is not empty.
C7_EndsCompleted ==
  (Exited /\ run.invoker = "ok" /\ run.applied) =>
    /\ store[run.job].status = "completed"
    /\ store[run.job].completed_at >= store[run.job].started_at
    /\ store[run.job].result.output_files # {}

\* ---- C8: a tool failure ends failed with the exit code
\* C8: when process_job has ended for a job whose tool run exited non-zero
\* (and the store applied every write process_job made), the record is failed
\* and its error_message carries that exit code.
C8_EndsFailedWithCode ==
  (Exited /\ run.rc > 0 /\ run.applied) =>
    /\ store[run.job].status = "failed"
    /\ store[run.job].error_message = [kind |-> "tool_exit", code |-> run.rc]

\* ---- C9: a failed processing write does not stop the job
\* C9: right after a processing write that failed, whatever the failure,
\* process_job has made that write once and is about to call process_pdf.
C9_ProceedsToInvoker ==
  (/\ run.state = "active"
   /\ last_update.job = run.job
   /\ last_update.status = "processing"
   /\ last_update.outcome \in StoreFailures) =>
    /\ run.proc = 1
    /\ pc = "process_pdf"

\* ---- C10: update_job_status returns a boolean
\* C10: the last call of update_job_status returned false if the store call
\* failed, whatever the failure, and true only if the write was applied.
C10_NeverRaises ==
  /\ last_update.outcome \in StoreFailures => last_update.ret = "false"
  /\ last_update.ret = "true" => last_update.outcome = "ok"

\* ---- C11: a failed job does not stop the continuous loop
\* C11: in continuous mode, when process_job has ended for a job whose
\* process_pdf failed, the failed write was attempted, process_job returned
\* normally (if the store applied its writes) and the loop is at the delete or
\* in its inner except, never at the exit; the process exits only with running
\* false; and from there the loop goes back to its while test, on to the next
\* receive while running is true, and hands a well-formed message it received
\* to process_job.
C11_SwallowedAndContinues ==
  /\ [](~single_task_mode =>
          /\ (Exited /\ run.invoker = "failed") =>
               /\ run.term = <<"failed">>
               /\ pc \in {"gpu_delete", "gpu_except"}
               /\ (run.applied => run.state = "returned")
          /\ (pc = "exit" => ~running))
  /\ [][~single_task_mode =>
          /\ (pc \in {"gpu_delete", "gpu_except"} /\ pc' # pc) => pc' = "gpu_while"
          /\ (pc = "gpu_while" /\ running /\ pc' # pc) => pc' = "gpu_receive"
          /\ (pc = "gpu_receive" /\ pc' # pc) =>
               pc' \in {"gpu_message", "gpu_attributes", "gpu_sleep"}
          /\ (pc = "gpu_message" /\ running /\ msg_kind[message] = "ok" /\ pc' # pc) =>
               pc' = "process_job"]_vars

\* The first job failed and was recorded, its message was deleted, and the
\* second message's job is now in flight.
C11_NextJobAfterFailure ==
  /\ ~single_task_mode /\ running
  /\ JOBS_PROCESSED.failed = 1
  /\ store["j1"].status = "failed" /\ queue["m1"] = "deleted"
  /\ deliveries = 2 /\ pc = "pj_processing" /\ current_job = "j2"

\* ---- C12: single-shot mode exits non-zero after a failure
\* C12: in single-task mode process_job is entered at most once (never after
\* an earlier invocation); an invocation that raised attempted the failed write
\* before the process exits, and the exit code is then 1; the exit code is 0
\* exactly when process_job returned, which it does only when process_pdf
\* succeeded.
C12_SingleShotExit ==
  single_task_mode =>
    /\ (pc = "process_job" => run = IdleRun)
    /\ (run.state = "raised" =>
          /\ Len(run.term) >= 1 /\ run.term[Len(run.term)] = "failed"
          /\ pc \in {"fargate_except", "exit"})
    /\ (run.state = "returned" => run.invoker = "ok")
    /\ ((pc = "exit" /\ run.state # "idle") =>
          /\ (exit_code = 0) = (run.state = "returned")
          /\ (exit_code = 1) = (run.state = "raised"))
    /\ ((pc = "exit" /\ exit_code = 0) => run.invoker = "ok")

\* The tool failed, the failure was recorded, the process exited with 1.
C12_ExitedAfterRecordedFailure ==
  /\ single_task_mode
  /\ pc = "exit" /\ exit_code = 1
  /\ run.invoker = "failed" /\ run.term = <<"failed">>
  /\ store["j1"].status = "failed"

\* ---- C13: single-shot mode with an unknown job id
\* C13: in single-task mode with a JOB_ID the table holds no item for,
\* process_job is never entered, update_job_status is never called and the
\* table stays as it was, no message is received or deleted, and the process
\* exits with code 1.
C13_AbsentJob ==
  (single_task_mode /\ env_job_id \notin Jobs \cup {NoJob}) =>
    /\ run = IdleRun /\ current_job = NoJob
    /\ last_update = NoUpdate
    /\ \A j \in Jobs : store[j] \in {Submitted(j, NewJob), Submitted(j, PriorJob)}
    /\ deliveries = 0 /\ message = NoMsg
    /\ \A m \in Msgs : queue[m] = "visible"
    /\ pc \in {"run", "fargate", "fargate_except", "exit"}
    /\ (pc = "exit" => exit_code = 1)

\* get_job found no item and the process has exited.
C13_ExitedOnAbsentJob ==
  /\ single_task_mode /\ env_job_id = "jX"
  /\ faults = 0
  /\ pc = "exit" /\ exit_code = 1

\* ---- C14: what a stop signal does
\* C14: every stop signal clears running and leaves the main thread where it
\* was, with the exception it carries, its current job and the process's exit
\* code untouched (nothing propagates, nothing is terminated); when a job is in
\* flight (the main thread is inside process_job) the handler calls
\* update_job_status once, for that job and with status interrupted, and no
\* other record changes; when no job is in flight it calls nothing and no
\* record changes.
C14_SignalHandler ==
  [][signals' # signals =>
       /\ running' = FALSE
       /\ pc' = pc /\ exc' = exc /\ result' = result
       /\ current_job' = current_job /\ exit_code' = exit_code
       /\ ACTIVE_JOBS' = ACTIVE_JOBS /\ work_dir' = work_dir /\ objects' = objects /\ queue' = queue
       /\ IF InsideProcessJob
          THEN /\ last_update'.job = current_job
               /\ last_update'.status = "interrupted"
               /\ \A j \in Jobs \ {current_job} : store'[j] = store[j]
               /\ store'[current_job] \in
                    {store[current_job],
                     [store[current_job] EXCEPT
                        !.status = "interrupted",
                        !.updated_at = timestamp_to_beijing_str(now),
                        !.error_message = [kind |-> "interrupted", code |-> 0]]}
               /\ (last_update'.outcome = "ok" =>
                     store'[current_job].status = "interrupted")
          ELSE /\ store' = store
               /\ last_update' = last_update]_vars

\* A signal arrived while j1 was in flight and the record is interrupted.
C14_InterruptedInFlight ==
  /\ signals = 1 /\ ~running
  /\ current_job = "j1"
  /\ store["j1"].status = "interrupted"
  /\ last_update = [job |-> "j1", status |-> "interrupted",
                    outcome |-> "ok", ret |-> "true"]

\* ---- C15: shutdown of the continuous loop
\* The main thread of the continuous worker.
LoopThread ==
  \/ Run
  \/ GpuWhile
  \/ ReceiveOne
  \/ ReceiveNone
  \/ ReceiveRaises
  \/ QueueAttributes
  \/ Sleep
  \/ GpuMessage
  \/ GpuExcept
  \/ GpuDelete
  \/ ProcessJobEnter
  \/ ProcessJobProcessing
  \/ ProcessJobCompleted
  \/ ProcessJobExcept
  \/ ProcessJobFinally
  \/ PdfFailsEarly
  \/ PdfRunsTool

\* How far the main thread is from the exit once running is false.
StopRank(p) ==
  CASE p = "exit" -> 0
    [] p = "gpu_while" -> 1
    [] p \in {"gpu_sleep", "gpu_delete", "gpu_except", "run"} -> 2
    [] p \in {"gpu_attributes", "pj_finally"} -> 3
    [] p = "pj_except" -> 4
    [] p = "pj_completed" -> 5
    [] p = "process_pdf" -> 6
    [] p = "pj_processing" -> 7
    [] p = "process_job" -> 8
    [] p = "gpu_message" -> 9
    [] p = "gpu_receive" -> 10
    [] OTHER -> 11

\* C15 (as stated): in continuous mode process_job is entered only while
\* running is true: no message is handed to it after the flag became false.
C15_NoJobAfterStop ==
  [][(~single_task_mode /\ pc = "process_job" /\ pc' = "pj_processing") =>
       running]_vars

\* C15 (amended): in continuous mode, once running is false the main thread
\* can always take its next step until the process has exited, and every step
\* it takes brings it strictly closer to the exit (so it exits, given that its
\* steps complete); the exit has code 0 and leaves no job in flight; the loop
\* body passes a message on towards process_job only if running was true when
\* it tested the flag, so at most the message that passed that test is still
\* processed after the signal.
C15_StopsAfterSignal ==
  /\ [](~single_task_mode =>
          /\ (pc = "exit" => (exit_code = 0 /\ ~running /\ current_job = NoJob))
          /\ ((~running /\ pc # "exit") => ENABLED LoopThread))
  /\ [][(~single_task_mode /\ ~running /\ pc' # pc) =>
          StopRank(pc') < StopRank(pc)]_vars
  /\ [][(~single_task_mode /\ pc = "gpu_message" /\ pc' = "process_job") =>
          running]_vars

\* The signal arrived after the loop body tested the flag and before
\* process_job made the job current: the job runs with running false and
\* nothing marks it interrupted.
C15_JobStartedAfterStop ==
  /\ ~single_task_mode /\ ~running
  /\ pc = "pj_processing"
  /\ last_update = NoUpdate
  /\ store[current_job].status = "pending"

\* ---- C16: two workers on one queue
\* The second worker runs the same continuous loop in another process.  Of its
\* state only what the queue and the table see is kept: the message it holds
\* and whether it is inside process_job.
peerframe ==
  <<single_task_mode, compute_mode, env_job_id, cleanup_files, msg_kind, running,
    current_job, ACTIVE_JOBS, JOBS_PROCESSED, QUEUE_SIZE, pc, message, job_data,
    start_time, exc, result, exit_code, work_dir, objects, tool_files, now,
    signals, run, last_update, faults, http, SQS_QUEUE_URL, DYNAMODB_TABLE>>

\* run_gpu_mode, line 182: the second worker receives a message.
PeerReceive ==
  /\ peer.state = "idle"
  /\ \E m \in Msgs :
       /\ Deliverable(m)
       /\ queue' = [queue EXCEPT ![m] = "inflight"]
       /\ peer' = [peer EXCEPT !.state = "received", !.msg = m]
  /\ deliveries' = deliveries + 1
  /\ UNCHANGED <<peerframe, store>>

\* process_job, lines 258-283, in the second worker: the job becomes its
\* current job and it writes "processing", whatever the record holds.
PeerKwargs ==
  [NoKwargs EXCEPT !.worker_id = "gpu-" \o "peer",
                   !.started_at = timestamp_to_beijing_str(now)]

PeerProcessJob ==
  /\ peer.state = "received"
  /\ peer' = [peer EXCEPT !.state = "in_job", !.job = MsgJob(peer.msg)]
  /\ store' = update_job_status(store, MsgJob(peer.msg), "processing",
                                PeerKwargs, now, "ok").store
  /\ UNCHANGED <<peerframe, queue, deliveries>>

\* process_job, lines 294-325, and the delete of line 212 in the second
\* worker: the terminal write, then the message is deleted.
PeerEnd ==
  /\ peer.state = "in_job"
  /\ \E status \in {"completed", "failed"} :
       store' = update_job_status(store, peer.job, status, NoKwargs, now, "ok").store
  /\ queue' = AckMessage(queue, peer.msg, TRUE)
  /\ peer' = [peer EXCEPT !.state = "idle", !.msg = NoMsg, !.job = NoJob]
  /\ UNCHANGED <<peerframe, deliveries>>

\* The visibility timeout of a received message elapses, at any moment: the
\* workers never extend it (change_message_visibility has no caller).
VisibilityElapses ==
  /\ \E m \in Msgs :
       /\ queue[m] = "inflight"
       /\ queue' = [queue EXCEPT ![m] = "visible"]
       /\ peer' = [peer EXCEPT !.expired = @ \cup {m}]
  /\ UNCHANGED <<peerframe, store, deliveries>>

InitWorkers ==
  /\ Init
  /\ ~single_task_mode
  /\ cleanup_files

NextWorkers ==
  \/ LoopThread
  \/ PeerReceive
  \/ PeerProcessJob
  \/ PeerEnd
  \/ VisibilityElapses

WorkersSpec == InitWorkers /\ [][NextWorkers]_vars

\* C16: whenever both workers are inside process_job for the same job, they
\* hold the same message and that message's visibility timeout elapsed after
\* the first of them received it; while no timeout elapses, a message is held
\* by at most one worker.
C16_OneWorkerPerJob ==
  /\ (InsideProcessJob /\ peer.state = "in_job" /\ peer.job = current_job) =>
       (message = peer.msg /\ peer.msg \in peer.expired)
  /\ (message # NoMsg /\ message = peer.msg) => message \in peer.expired

\* Both workers are inside process_job for j1 after m1's timeout elapsed.
C16_BothInsideAfterTimeout ==
  /\ pc = "process_pdf" /\ current_job = "j1"
  /\ peer.state = "in_job" /\ peer.job = "j1"
  /\ "m1" \in peer.expired

\* ---- C17: only valid statuses are stored
\* C17: in every reachable state the status stored for every job is one of
\* pending, processing, completed, failed, interrupted.
C17_ValidStatus ==
  \A j \in Jobs : store[j].status \in Statuses

\* A job that failed before is being reprocessed after a redelivery and a
\* stop signal has just marked it interrupted.
C17_InterruptedWhileReprocessed ==
  /\ deliveries = 2
  /\ current_job = "j1"
  /\ store["j1"].failed_at # NoVal
  /\ store["j1"].status = "interrupted"

\* ---- C18: reprocessing replaces the earlier terminal record
\* C18: in continuous mode, with no stop signal and every write of the run
\* applied, the record of a job whose process_job has ended describes that run
\* only: a completed record carries no failed_at and no error_message, a
\* failed record no completed_at, processing_time or result.
C18_LatestRunOnly ==
  (~single_task_mode /\ Exited /\ run.job # NoJob /\ run.applied /\ signals = 0) =>
    /\ store[run.job].status \in {"completed", "failed"}
    /\ (store[run.job].status = "completed" =>
          /\ store[run.job].failed_at = NoVal
          /\ store[run.job].error_message = NoError)
    /\ (store[run.job].status = "failed" =>
          /\ store[run.job].completed_at = NoVal
          /\ store[run.job].processing_time = NoVal
          /\ store[run.job].result = NoResult)

\* ---- C19: error_message and result go with the status
\* C19: in every reachable state a record carries an error_message only if
\* its status is failed or interrupted, and a result only if its status is
\* completed.
C19_FieldsMatchStatus ==
  \A j \in Jobs :
    /\ (store[j].error_message # NoError =>
          store[j].status \in {"failed", "interrupted"})
    /\ (store[j].result # NoResult => store[j].status = "completed")

\* ---- C20: polls that return no message
\* C20: in continuous mode the process never exits while running is true; a
\* poll that returned no message is followed by the queue-attributes step,
\* which changes neither the table nor the queue nor the flag, sets the
\* queue-depth gauge to the queue's number of visible messages whenever the
\* attributes call succeeds, and goes on to the sleep, from which the loop
\* returns to its while test.
C20_EmptyPolls ==
  /\ []((~single_task_mode /\ running) => (pc # "exit" /\ exit_code = NoVal))
  /\ [][(pc = "gpu_receive" /\ pc' = "gpu_attributes") =>
          UNCHANGED <<store, queue, running, QUEUE_SIZE, exit_code>>]_vars
  /\ [][(pc = "gpu_attributes" /\ pc' # pc) =>
          /\ pc' = "gpu_sleep"
          /\ UNCHANGED <<store, queue, running, exit_code>>
          /\ (faults' = faults => QUEUE_SIZE' = QueueDepth)]_vars
  /\ [][(pc = "gpu_sleep" /\ pc' # pc) =>
          (pc' = "gpu_while" /\ UNCHANGED <<store, queue, running, QUEUE_SIZE>>)]_vars

\* After an empty poll the gauge shows the one message that is visible.
C20_DepthReported ==
  /\ ~single_task_mode /\ running
  /\ pc = "gpu_sleep"
  /\ faults = 0
  /\ QueueDepth = 1 /\ QUEUE_SIZE = 1

\* ---- C21: a receive that raises is transient
\* C21: in continuous mode a receive that raises changes neither the table nor
\* the queue nor the flag, leaves the process running and holding no message,
\* and takes the loop to its sleep; the sleep is followed by the while test,
\* and the while test by the next receive while running is true.
C21_ReceiveTransient ==
  /\ [][(~single_task_mode /\ pc = "gpu_receive" /\ faults' # faults) =>
          /\ pc' = "gpu_sleep"
          /\ exit_code' = NoVal
          /\ message' = NoMsg
          /\ UNCHANGED <<store, last_update, queue, running, current_job,
                         JOBS_PROCESSED, deliveries>>]_vars
  /\ [][(~single_task_mode /\ pc = "gpu_sleep" /\ pc' # pc) =>
          (pc' = "gpu_while" /\ UNCHANGED <<store, queue, exit_code>>)]_vars
  /\ [][(~single_task_mode /\ pc = "gpu_while" /\ running /\ pc' # pc) =>
          (pc' = "gpu_receive" /\ UNCHANGED <<store, queue, exit_code>>)]_vars

\* The first receive raised and the loop is back at its receive, still
\* running, with nothing delivered and nothing written.
C21_PollsAgainAfterError ==
  /\ ~single_task_mode /\ running
  /\ pc = "gpu_receive"
  /\ faults = 1 /\ deliveries = 0
  /\ \A j \in Jobs : store[j] = Submitted(j, NewJob)

\* ------------------------------------------------------------ the HTTP thread
\* start_flask_server (main.py:337-344) starts a daemon thread that serves
\* /health, /ready, /metrics and /status until the process ends.  Each route
\* reads the orchestrator's state and answers; the response is all it leaves.

httpframe ==
  <<single_task_mode, compute_mode, env_job_id, cleanup_files, msg_kind, running,
    current_job, ACTIVE_JOBS, JOBS_PROCESSED, QUEUE_SIZE, pc, message, job_data,
    start_time, exc, result, exit_code, store, queue, work_dir, objects,
    tool_files, now, signals, run, last_update, deliveries, faults, peer,
    SQS_QUEUE_URL, DYNAMODB_TABLE>>

\* run() started the thread and the process has not ended.
Serving == pc \notin {"run", "exit"}

\* /health, lines 120-131: check_health reads the system's resources, lists the
\* buckets, reads the table's status and the queue's ARN, and writes and
\* removes a probe file in the root of the workspace; 200 if every check
\* passed, 503 otherwise.
HealthRoute ==
  /\ Serving
  /\ \E healthy \in BOOLEAN :
       http' = [route |-> "health", code |-> IF healthy THEN 200 ELSE 503]
  /\ UNCHANGED httpframe

\* /ready, lines 133-138: check_readiness reads the table's status, the
\* queue's attributes and the importable modules.
ReadyRoute ==
  /\ Serving
  /\ \E ready \in BOOLEAN :
       http' = [route |-> "ready", code |-> IF ready THEN 200 ELSE 503]
  /\ UNCHANGED httpframe

\* A faulty variant of /metrics: rendering the gauges resets the active-job
\* gauge.
MetricsRouteResets ==
  /\ Serving
  /\ http' = [route |-> "metrics", ACTIVE_JOBS |-> ACTIVE_JOBS,
              JOBS_PROCESSED |-> JOBS_PROCESSED, QUEUE_SIZE |-> QUEUE_SIZE]
  /\ ACTIVE_JOBS' = 0
  /\ UNCHANGED <<single_task_mode, compute_mode, env_job_id, cleanup_files,
                 msg_kind, running, current_job, JOBS_PROCESSED, QUEUE_SIZE, pc,
                 message, job_data, start_time, exc, result, exit_code, store,
                 queue, work_dir, objects, tool_files, now, signals, run,
                 last_update, deliveries, faults, peer, SQS_QUEUE_URL,
                 DYNAMODB_TABLE>>

\* /metrics, lines 140-143: generate_latest() renders the counters and gauges.
MetricsRoute ==
  /\ Serving
  /\ http' = [route |-> "metrics", ACTIVE_JOBS |-> ACTIVE_JOBS,
              JOBS_PROCESSED |-> JOBS_PROCESSED, QUEUE_SIZE |-> QUEUE_SIZE]
  /\ UNCHANGED httpframe

\* A faulty variant of /status: it never reports a job.
StatusBodyNoJob(cj, r, t) ==
  [route |-> "status", current_job |-> NoJob, running |-> r, uptime |-> t]

\* /status, lines 145-155: the current job, the flag and the uptime
\* (time.time() - self.start_time; run() set start_time at clock 0).
StatusBody(cj, r, t) ==
  [route |-> "status", current_job |-> cj, running |-> r, uptime |-> t]

StatusRoute ==
  /\ Serving
  /\ http' = StatusBody(current_job, running, now)
  /\ UNCHANGED httpframe

HttpThread ==
  \/ HealthRoute
  \/ ReadyRoute
  \/ MetricsRoute
  \/ StatusRoute

\* The continuous worker, its signal handler and its HTTP thread.
InitHttp ==
  /\ Init
  /\ ~single_task_mode
  /\ cleanup_files
  /\ \A m \in Msgs : msg_kind[m] = "ok"

NextHttp ==
  \/ LoopThread
  \/ SignalHandler
  \/ HttpThread

HttpSpec == InitHttp /\ [][NextHttp]_vars

\* ---- C22: what /status reports as the current job
\* C22: the current-job pointer holds a job exactly while the main thread is
\* inside process_job, the except branch that writes failed and the finally
\* block included, and it is the job process_job was called with; so every
\* /status response, whenever the HTTP thread reads, reports that job while
\* process_job runs and no job at any other moment.
C22_StatusReadsCurrentJob ==
  /\ []((current_job # NoJob) = InsideProcessJob)
  /\ [](InsideProcessJob => current_job = job_data.job_id)
  /\ [][(http' # http /\ http'.route = "status") =>
          http'.current_job = (IF InsideProcessJob THEN job_data.job_id ELSE NoJob)]_vars

\* /status was read after the tool failed and before the failed write was
\* made, and reported the job.
C22_ReadWhileRecordingFailure ==
  /\ pc = "pj_except"
  /\ run.rc > 0 /\ faults = 0 /\ deliveries = 1
  /\ http = StatusBody("j1", TRUE, 1)

\* ---- C23: the HTTP thread only reads
\* C23: every step in which the HTTP thread answers a request (/health,
\* /ready, /metrics or /status), wherever the main thread stands, leaves the
\* running flag, the current job, the counters and gauges, the job table and
\* the queue as they were, and the main thread where it was.
C23_HttpReadOnly ==
  [][(http' # http) =>
       /\ http'.route \in {"health", "ready", "metrics", "status"}
       /\ UNCHANGED <<running, current_job, ACTIVE_JOBS, JOBS_PROCESSED, QUEUE_SIZE,
                      store, queue, pc, exit_code, message, job_data>>]_vars

\* /metrics was served while j1 was in flight, and j1 is still in flight with
\* the gauge at 1.
C23_MetricsServedInFlight ==
  /\ http.route = "metrics" /\ http.ACTIVE_JOBS = 1
  /\ pc = "process_pdf" /\ current_job = "j1" /\ ACTIVE_JOBS = 1
  /\ store["j1"].status = "processing"

\* ---- C24: what the orchestration never touches
\* C24: in every reachable state the table holds a record for every job it
\* held at the start (none was deleted), and every record's data_bucket,
\* input_key, output_prefix and retry_count are what the submitter stored:
\* neither process_job nor the signal handler changed them, and no retry was
\* counted.
C24_SourceFieldsKept ==
  /\ DOMAIN store = Jobs
  /\ \A j \in Jobs :
       /\ store[j].data_bucket = JobSource(j).data_bucket
       /\ store[j].input_key = JobSource(j).input_key
       /\ store[j].output_prefix = JobSource(j).output_prefix
       /\ store[j].retry_count = NewJob.retry_count

\* j1 failed, was redelivered, reprocessed and completed: every transition
\* was written to its record.
C24_RewrittenRecord ==
  /\ deliveries = 2
  /\ store["j1"].status = "completed"
  /\ store["j1"].failed_at # NoVal
  /\ store["j1"].input_key = "input/j1.pdf"

\* ---- C25: an empty input and a tool run without output
\* C25: with no stop signal and every write of the run applied, when
\* process_job has ended (a) for a job whose downloaded file was empty, the
\* tool was not run, and (b) for a job whose tool run exited 0 and wrote no
\* file, process_pdf failed in the tool step, before the upload; in both cases
\* the run made the failed write only and the record is failed with an
\* error_message.
C25_EmptyInputOrNoOutputFails ==
  (Exited /\ run.applied /\ signals = 0) =>
    /\ (run.cause = "empty_file" =>
          /\ run.rc = NoVal
          /\ run.term = <<"failed">>
          /\ store[run.job].status = "failed"
          /\ store[run.job].error_message # NoError)
    /\ ((run.rc = 0 /\ run.produced = {}) =>
          /\ run.invoker = "failed" /\ run.cause = "no_output"
          /\ run.term = <<"failed">>
          /\ store[run.job].status = "failed"
          /\ store[run.job].error_message # NoError)

\* ---- C26: what one update_job_status call writes
\* C26: every step that changes a job's record is one update_job_status call
\* for that job, and the record after it has the call's status, the timestamp
\* of the call as updated_at, the call's keyword value in every field the call
\* supplied with a value other than None, and the value it had before in every
\* other field; no field is added or removed, and no other record changes.
C26_WritesOnlySupplied ==
  [][\A j \in Jobs :
       store'[j] # store[j] =>
         /\ last_update'.job = j /\ last_update'.outcome = "ok"
         /\ DOMAIN store'[j] = DOMAIN store[j]
         /\ store'[j].status = last_update'.status
         /\ store'[j].updated_at = timestamp_to_beijing_str(now)
         /\ \A f \in DOMAIN store[j] \ {"status", "updated_at"} :
              store'[j][f] = (IF f \in Supplied(CallKwargs)
                              THEN CallKwargs[f] ELSE store[j][f])
         /\ \A k \in Jobs \ {j} : store'[k] = store[k]]_vars

\* The failed write of a run has just been applied: the record is failed with
\* failed_at and error_message, and still has the worker_id, started_at and
\* queue metadata the processing write of the run stored.
C26_FailedWriteKeepsStart ==
  /\ ~single_task_mode
  /\ pc = "pj_finally"
  /\ last_update = [job |-> "j1", status |-> "failed", outcome |-> "ok", ret |-> "true"]
  /\ store["j1"].status = "failed" /\ store["j1"].failed_at # NoVal
  /\ store["j1"].worker_id = get_worker_id("gpu")
  /\ store["j1"].started_at # NoVal /\ store["j1"].received_at # NoVal
  /\ store["j1"].completed_at = NoVal

\* ------------------------------------------------------------------- main
\* A faulty variant of the constructors: they do not look at the
\* configuration.
ConfigIgnored(queue_url, table_name) == TRUE

\* queue_manager.py:22-25 and job_manager.py:67-70: each constructor raises
\* ValueError when its environment variable is not set.
ConfigPresent(queue_url, table_name) == queue_url /\ table_name

\* main, lines 372-379: the processor is constructed; an exception of a
\* constructor is logged and the process ends with sys.exit(1); otherwise
\* run() is called.
Main ==
  /\ pc = "main"
  /\ IF ConfigPresent(SQS_QUEUE_URL, DYNAMODB_TABLE)
     THEN pc' = "run" /\ UNCHANGED exit_code
     ELSE pc' = "exit" /\ exit_code' = 1
  /\ UNCHANGED <<config, running, JOBS_PROCESSED, QUEUE_SIZE, message, job_data,
                 queue, jobvars, envvars>>

\* The process from its launch, with any configuration.
InitMain ==
  /\ Launch
  /\ tool_files = Artifacts
  /\ SQS_QUEUE_URL \in BOOLEAN
  /\ DYNAMODB_TABLE \in BOOLEAN
  /\ pc = "main"

NextMain ==
  \/ Main
  \/ Next

MainSpec == InitMain /\ [][NextMain]_vars

\* ---- C27: missing configuration
\* C27: when SQS_QUEUE_URL or DYNAMODB_TABLE is not set, or single-task mode
\* runs without JOB_ID, the process never receives or deletes a message, never
\* calls update_job_status and leaves the table as it was, never enters
\* process_job, can always take its next step until it has exited, and exits
\* with code 1.
C27_MissingConfigExits ==
  (\/ ~SQS_QUEUE_URL
   \/ ~DYNAMODB_TABLE
   \/ (single_task_mode /\ env_job_id = NoJob)) =>
    /\ deliveries = 0 /\ message = NoMsg
    /\ \A m \in Msgs : queue[m] = "visible"
    /\ last_update = NoUpdate
    /\ \A j \in Jobs : store[j] \in {Submitted(j, NewJob), Submitted(j, PriorJob)}
    /\ run = IdleRun /\ current_job = NoJob
    /\ pc \in {"main", "run", "fargate", "exit"}
    /\ (pc = "exit" => exit_code = 1)
    /\ (pc # "exit" => ENABLED (Main \/ Run \/ Fargate))

\* The table name was not set and the process has exited with code 1.
C27_ExitedWithoutTable ==
  /\ SQS_QUEUE_URL /\ ~DYNAMODB_TABLE
  /\ pc = "exit" /\ exit_code = 1

\* ---- C28: the order of the events of one message
IsPrefix(s, t) == Len(s) <= Len(t) /\ SubSeq(t, 1, Len(s)) = s

\* The message the loop holds was received and not deleted, and process_job
\* runs for its job.
Dequeued ==
  /\ message # NoMsg /\ queue[message] = "inflight" /\ deliveries >= 1
  /\ run.job = MsgJob(message)

\* The histories a run of process_job can have when it has ended, given the
\* events inv of its process_pdf call: the call between the processing write
\* and the completed or failed write; the failed write after a completed write
\* that raised; the failed write straight after a processing write that raised.
Handlings(inv) ==
  {<<"processing">> \o inv \o <<"completed">>,
   <<"processing">> \o inv \o <<"failed">>,
   <<"processing">> \o inv \o <<"completed", "failed">>,
   <<"processing", "failed">>}

\* C28 (as stated): for a message the continuous loop handles, after the
\* dequeue come the processing write, the process_pdf call, the completed or
\* failed write and then the delete; the work directory is removed only after
\* the delete, so its removal is not among the events up to the delete.
C28_CleanupLast ==
  (~single_task_mode /\ run.state # "idle" /\ run.job # NoJob) =>
    /\ Dequeued
    /\ \E t \in Handlings(<<"invoker">>) : IsPrefix(run.log, t)
    /\ (pc = "gpu_delete" => run.log \in Handlings(<<"invoker">>))

\* C28 (amended): for a message the continuous loop handles, after the
\* dequeue come the processing write, the process_pdf call, whose last act is
\* the removal of the work directory (when cleanup is on), the completed or
\* failed write, and then the delete: the removal precedes the terminal write
\* and the delete.  A processing write that raises is followed by the failed
\* write without a process_pdf call, a completed write that raises by the
\* failed write; the delete is reached only after a terminal write was
\* attempted.
C28_HandlingOrder ==
  (~single_task_mode /\ run.state # "idle" /\ run.job # NoJob) =>
    /\ Dequeued
    /\ \E t \in Handlings(InvokerEvents(cleanup_files)) : IsPrefix(run.log, t)
    /\ (pc = "gpu_delete" => run.log \in Handlings(InvokerEvents(cleanup_files)))

\* The loop is about to delete the message of a job that completed: the work
\* directory was removed before the completed write.
C28_CleanedBeforeAck ==
  /\ ~single_task_mode /\ cleanup_files
  /\ pc = "gpu_delete" /\ message = "m1" /\ queue["m1"] = "inflight"
  /\ run.log = <<"processing", "invoker", "cleanup", "completed">>
  /\ ~work_dir["j1"].exists

\* ---- C29: the processing write
\* C29: once process_job is past its first step for a job, it has attempted
\* the processing write exactly once; and right after that write was applied
\* the record is processing with worker_id "fargate-<host>" in fargate mode,
\* "gpu-<host>" in gpu mode and "worker-<host>" otherwise, with started_at the
\* run's start time, and with received_at and queue_wait_time those of the
\* job data when the job data carried them, and as they were before when it
\* did not.
C29_ProcessingFields ==
  (InsideProcessJob /\ pc # "pj_processing") =>
    /\ run.proc = 1
    /\ (/\ pc = "process_pdf"
        /\ last_update = [job |-> current_job, status |-> "processing",
                          outcome |-> "ok", ret |-> "true"]) =>
         /\ store[current_job].status = "processing"
         /\ store[current_job].worker_id =
              (IF compute_mode = "fargate" THEN "fargate-h"
               ELSE IF compute_mode = "gpu" THEN "gpu-h" ELSE "worker-h")
         /\ store[current_job].started_at = timestamp_to_beijing_str(start_time)
         /\ (job_data.received_type # "absent" =>
               /\ store[current_job].received_at =
                    timestamp_to_beijing_str(job_data.received_at)
               /\ store[current_job].queue_wait_time = job_data.queue_wait_time)
         /\ (job_data.received_type = "absent" =>
               /\ store[current_job].received_at = NoVal
               /\ store[current_job].queue_wait_time = NoVal)

\* ------------------------------------------------------- _upload_results

\* What MinerU writes below output/ for a document: the markdown file and a
\* picture in a subdirectory.
ToolOutputs ==
  {[dir |-> "auto/", name |-> "a.md"], [dir |-> "auto/images/", name |-> "b.png"]}

\* A worker in continuous mode whose tool can write two files, on a queue of
\* well-formed messages.
InitUpload ==
  /\ Launch
  /\ tool_files = ToolOutputs
  /\ SQS_QUEUE_URL = TRUE
  /\ DYNAMODB_TABLE = TRUE
  /\ pc = "run"
  /\ ~single_task_mode
  /\ \A m \in Msgs : msg_kind[m] = "ok"

NextUpload ==
  \/ LoopThread
  \/ VisibilityTimeout

UploadSpec == InitUpload /\ [][NextUpload]_vars

\* ---- C30: the manifest
\* C30: when process_pdf has just returned, its result has exactly one entry for
\* every file of the output directory, named after the file, with s3_url
\* "s3://bucket/" followed by the job's output_prefix and the file's path
\* below the output directory, and the bucket holds an object under that key;
\* when the upload of a file failed, process_pdf failed and returned no
\* result; and a record's result changes only in the completed write after a
\* process_pdf call that returned, to that call's result.
C30_ManifestPerArtifact ==
  /\ []((pc = "pj_completed" /\ run.invoker = "ok") =>
          /\ result.present
          /\ Cardinality(result.output_files) = Cardinality(run.files)
          /\ \A f \in run.files :
               LET key == "output/" \o run.job \o "/" \o f.dir \o f.name
               IN /\ key \in objects
                  /\ [file_name |-> f.name, s3_url |-> "s3://bucket/" \o key]
                       \in result.output_files)
  /\ [](run.cause = "upload" =>
          /\ run.invoker = "failed"
          /\ result = NoResult
          /\ \A i \in 1..Len(run.log) : run.log[i] # "completed")
  /\ [][\A j \in Jobs :
          store'[j].result # store[j].result =>
            /\ pc = "pj_completed"
            /\ run.invoker = "ok"
            /\ j = run.job
            /\ store'[j].result = result]_vars

\* j1 completed with both files, its manifest has the entry of the picture
\* under its subdirectory; then the upload for j2 failed at its second file:
\* the first one is in the bucket and j2's record has no result.
C30_SecondUploadFailed ==
  /\ store["j1"].status = "completed"
  /\ Cardinality(store["j1"].result.output_files) = 2
  /\ [file_name |-> "b.png", s3_url |-> "s3://bucket/output/j1/auto/images/b.png"]
       \in store["j1"].result.output_files
  /\ {"output/j1/auto/a.md", "output/j1/auto/images/b.png"} \subseteq objects
  /\ Exited
  /\ run.job = "j2"
  /\ run.files = ToolOutputs
  /\ run.cause = "upload"
  /\ "output/j2/auto/a.md" \in objects
  /\ "output/j2/auto/images/b.png" \notin objects
  /\ store["j2"].status = "failed"
  /\ store["j2"].result = NoResult

\* ---- C31: acknowledged jobs
\* C31 (as stated): whenever a message has been deleted from the queue and the
\* store applied every update it was sent, the status of the message's job
\* is completed or failed.
C31_AckedJobsTerminal ==
  \A m \in Msgs :
    (queue[m] = "deleted" /\ faults = 0) =>
      store[MsgJob(m)].status \in {"completed", "failed"}

\* ---- C32: every job record is processed
\* C32 (as stated): when process_job has ended for a job and no store, queue
\* or storage call failed, it has attempted the processing write and called
\* process_pdf, whether the job data came from a message or from get_job.
C32_EveryRecordProcessed ==
  (Exited /\ run.job # NoJob /\ faults = 0) =>
    /\ run.proc = 1
    /\ run.invoker # "none"

\* ---- C33: the processed counters
\* The increments of JOBS_PROCESSED so far.
Counted == JOBS_PROCESSED.completed + JOBS_PROCESSED.failed

\* Whether the loop body holds a message it has not counted yet: from the
\* parse of the body until the completed or failed increment of process_job
\* (lines 305, 317) or the increment of the inner except (line 216).
Uncounted ==
  IF \/ pc \in {"process_job", "pj_processing", "process_pdf", "pj_completed",
                "pj_except", "gpu_except"}
     \/ (pc = "pj_finally" /\ exc # NoError)
  THEN 1 ELSE 0

\* The loop body passes its running test with a message (lines 185-191).
HandedOver == pc = "gpu_message" /\ pc' \in {"process_job", "gpu_except"}

\* C33: in continuous mode no counter ever goes down; the increments made
\* plus the message held and not yet counted grow by exactly one when a
\* message is handed to the loop body and stay the same in every other step,
\* and nothing is left uncounted when the loop body ends: every handling
\* increments one counter, once, on each of its paths.  While no stop signal
\* has arrived, the increments made between two handlings equal the messages
\* received.
C33_CountedOncePerMessage ==
  /\ [][~single_task_mode =>
          /\ JOBS_PROCESSED'.completed >= JOBS_PROCESSED.completed
          /\ JOBS_PROCESSED'.failed >= JOBS_PROCESSED.failed
          /\ Counted' + Uncounted' =
               Counted + Uncounted + (IF HandedOver THEN 1 ELSE 0)]_vars
  /\ [](pc \in {"gpu_while", "gpu_receive", "gpu_attributes", "gpu_sleep",
                "gpu_message", "gpu_delete", "exit"} => Uncounted = 0)
  /\ []((~single_task_mode /\ signals = 0 /\
         pc \in {"gpu_while", "gpu_receive", "gpu_attributes", "gpu_sleep"})
          => Counted = deliveries)

\* The failed write raised: process_job raised into the inner except, which
\* counted the message; the record is still processing and the message is
\* still in flight.
C33_CountedAfterFailedWriteRaised ==
  /\ ~single_task_mode
  /\ pc = "gpu_while"
  /\ signals = 0
  /\ deliveries = 1
  /\ faults = 1
  /\ queue["m1"] = "inflight"
  /\ store["j1"].status = "processing"
  /\ JOBS_PROCESSED = [completed |-> 0, failed |-> 1]

\* ---- C34: messages the loop body cannot handle
\* The loop body holds a message whose body is not JSON, or has no job_id, or
\* that has no SentTimestamp.
HoldsBadMessage == message \in Msgs /\ msg_kind[message] # "ok"

\* C34: while the loop body holds such a message no step writes to the store,
\* deletes a message, enters process_pdf or ends the process, and only a stop
\* signal clears the running flag; such a message is never deleted and never
\* gets past the first line of process_job; and the continuous loop ends only
\* after a stop signal.
C34_BadMessageSkipped ==
  /\ [][HoldsBadMessage =>
          /\ store' = store
          /\ last_update' = last_update \/ last_update' = NoUpdate
          /\ \A m \in Msgs : queue'[m] = "deleted" => queue[m] = "deleted"
          /\ pc' \notin {"process_pdf", "exit"}
          /\ signals' = signals => running' = running]_vars
  /\ [](HoldsBadMessage =>
          /\ pc \in {"gpu_message", "process_job", "gpu_except"}
          /\ run.proc = 0
          /\ run.invoker = "none")
  /\ [](\A m \in Msgs : queue[m] = "deleted" => msg_kind[m] = "ok")
  /\ []((~single_task_mode /\ pc = "exit") => signals > 0)

\* m1 was processed and deleted, then m2, which has no job_id, was counted as
\* failed and left in flight; the loop is polling again and j2's record is as
\* it was submitted.
C34_PollsAfterBadMessage ==
  /\ pc = "gpu_receive"
  /\ running
  /\ msg_kind["m2"] = "nojobid"
  /\ queue = [m \in Msgs |-> IF m = "m1" THEN "deleted" ELSE "inflight"]
  /\ JOBS_PROCESSED = [completed |-> 1, failed |-> 1]
  /\ store["j2"] = Submitted("j2", NewJob)

\* ---- C35: a message received after the stop signal
\* The loop body is about to test the running flag for a message, and the
\* flag is false: the receive returned after the signal handler cleared it.
HoldsAfterStop == pc = "gpu_message" /\ ~running

\* C35: a receive can return a message after the running flag became false;
\* the next step of the main thread then drops the message: it is not handed
\* to process_job, no store write is made, nothing is counted and the queue
\* is left as it is, with the message in flight; and from then on the queue
\* and the table do not change until the process has ended with code 0.
C35_DroppedAfterStop ==
  /\ [][HoldsAfterStop =>
          /\ pc' \in {"gpu_message", "gpu_while"}
          /\ pc' = "gpu_while" => (message' = NoMsg /\ signals' = signals)
          /\ store' = store
          /\ queue' = queue
          /\ queue[message] = "inflight"
          /\ JOBS_PROCESSED' = JOBS_PROCESSED
          /\ run' = run]_vars
  /\ [][(~single_task_mode /\ ~running /\ pc \in {"gpu_while", "exit"}) =>
          /\ store' = store
          /\ queue' = queue
          /\ pc' \in {"gpu_while", "exit"}
          /\ pc' = "exit" => exit_code' = 0]_vars

\* The only receive of the process returned m1 after the stop signal: the
\* process has ended, m1 is in flight and j1's record is as it was submitted.
C35_ExitedWithMessageInFlight ==
  /\ ~single_task_mode
  /\ pc = "exit"
  /\ exit_code = 0
  /\ signals = 1
  /\ deliveries = 1
  /\ queue = [m \in Msgs |-> IF m = "m1" THEN "inflight" ELSE "visible"]
  /\ store["j1"] = Submitted("j1", NewJob)
  /\ JOBS_PROCESSED = [completed |-> 0, failed |-> 0]

\* ---- C36: a delete that fails
\* The step in which delete_message fails (line 212).
DeleteFails == pc = "gpu_delete" /\ faults' # faults

\* C36: the step in which the delete after process_job fails returns to the
\* while loop (it raises into neither except), and leaves the table, the
\* counters, the running flag and the queue as they were, the message still
\* in flight; and a well-formed message the loop body holds while running is
\* handed to process_job, which goes on to its processing write, whatever the
\* status its job's record holds.
C36_FailedDeleteKeepsMessage ==
  /\ [][DeleteFails =>
          /\ pc' = "gpu_while"
          /\ store' = store
          /\ JOBS_PROCESSED' = JOBS_PROCESSED
          /\ running' = running
          /\ queue' = queue
          /\ queue[message] = "inflight"
          /\ store[MsgJob(message)].status \in
               {"completed", "failed", "processing", "interrupted"}]_vars
  /\ [][(pc = "gpu_message" /\ running /\ msg_kind[message] = "ok"
           /\ signals' = signals) => pc' = "process_job"]_vars
  /\ [][(pc = "process_job" /\ job_data.job_id # NoJob /\ signals' = signals)
          => pc' = "pj_processing"]_vars

\* The delete of m1 failed after j1 was completed; m1 was delivered a second
\* time and j1 is being processed again: its record is processing and still
\* carries the completed_at of the first run.
C36_ReprocessedAfterFailedDelete ==
  /\ ~single_task_mode
  /\ pc = "process_pdf"
  /\ message = "m1"
  /\ deliveries = 2
  /\ faults = 1
  /\ queue = [m \in Msgs |-> IF m = "m1" THEN "inflight" ELSE "visible"]
  /\ JOBS_PROCESSED = [completed |-> 1, failed |-> 0]
  /\ store["j1"].status = "processing"
  /\ store["j1"].completed_at # NoVal

\* ---- C37: the output directory of a run
\* C37 (as stated): the files of the output directory that the no-output check
\* and the upload of a process_pdf call see are the files the tool wrote in
\* that call, and the manifest it returns has one entry for each of them.
C37_FreshOutputArea ==
  /\ run.files = run.produced
  /\ (pc = "pj_completed" /\ run.invoker = "ok") =>
       Cardinality(result.output_files) = Cardinality(run.produced)

====
